---- MODULE Spec2Model ----
(***************************************************************************)
(* Gold-set generation for LLM normalization (Validation_LLM).             *)
(*                                                                         *)
(* Two scripts share one design: Affiliation/gold_set_generation.py        *)
(* (variant "affiliation", one normalized field) and                       *)
(* Geolocalization/gold_set_generation.py (variant "address", country and  *)
(* continent).  The model follows validate_normalizations() and            *)
(* print_statistics() statement by statement; `variant` selects the        *)
(* script.  Every Python string is a sequence of one-character strings, so *)
(* strip(), lower(), split(',') and replace() are computed, not assumed.   *)
(***************************************************************************)
EXTENDS Integers, Sequences, FiniteSets, TLC

(***************************************************************************)
(* Bounds of the model.                                                    *)
(***************************************************************************)
\* longest input corpus (rows of the raw csv)
MaxCorpus == 3
\* pre-populated gold sets hold up to MinCorrect + MaxExtra rows
MaxExtra == 1
\* the oracle may be unstable for the first MaxFlaky sampled cases of a
\* consistency check, and is stable for the rest
MaxFlaky == 1

(***************************************************************************)
(* Program constants.                                                      *)
(***************************************************************************)
\* `if len(correct_cases) >= 20`
MinCorrect == 20
\* `random.sample(correct_cases, min(20, len(correct_cases)))`
SampleSize == 20
\* `((20 - inconsistent_count) / 20) * 100` and `total_variance / 20`
ReportedSamples == 20
\* `for run in range(3)`
Runs == 3

(***************************************************************************)
(* Strings.                                                                *)
(***************************************************************************)
sEmpty == <<>>
sQuit == <<"q", "u", "i", "t">>
sYes == <<"y">>
sR == <<"r">>
sW == <<"w">>
sERROR == <<"E", "R", "R", "O", "R">>
sUnknown == <<"U", "n", "k", "n", "o", "w", "n">>
sCountry == <<"c", "o", "u", "n", "t", "r", "y">>
sContinent == <<"c", "o", "n", "t", "i", "n", "e", "n", "t">>
\* the grave accent U+0060, which a TLA+ string cannot hold, as one character
Grave == "GRAVE"
sFence == <<Grave, Grave, Grave>>
sFenceJson == <<Grave, Grave, Grave, "j", "s", "o", "n">>
Quote == "\""

\* str.lower(), one character
LowerChar(c) ==
    CASE c = "A" -> "a" [] c = "B" -> "b" [] c = "C" -> "c" [] c = "D" -> "d"
      [] c = "E" -> "e" [] c = "F" -> "f" [] c = "G" -> "g" [] c = "H" -> "h"
      [] c = "I" -> "i" [] c = "J" -> "j" [] c = "K" -> "k" [] c = "L" -> "l"
      [] c = "M" -> "m" [] c = "N" -> "n" [] c = "O" -> "o" [] c = "P" -> "p"
      [] c = "Q" -> "q" [] c = "R" -> "r" [] c = "S" -> "s" [] c = "T" -> "t"
      [] c = "U" -> "u" [] c = "V" -> "v" [] c = "W" -> "w" [] c = "X" -> "x"
      [] c = "Y" -> "y" [] c = "Z" -> "z" [] OTHER -> c

\* a comparison of the text as typed
Lower_AsTyped(s) == s

\* str.lower()
Lower(s) == [k \in 1..Len(s) |-> LowerChar(s[k])]

IsSpace(c) == c \in {" ", "\t", "\n", "\r"}

RECURSIVE LStrip(_)
LStrip(s) == IF s # <<>> /\ IsSpace(Head(s)) THEN LStrip(Tail(s)) ELSE s

RECURSIVE RStrip(_)
RStrip(s) ==
    IF s # <<>> /\ IsSpace(s[Len(s)]) THEN RStrip(SubSeq(s, 1, Len(s) - 1)) ELSE s

\* str.strip()
Strip(s) == RStrip(LStrip(s))

\* str.startswith(p)
StartsWith(s, p) == Len(s) >= Len(p) /\ SubSeq(s, 1, Len(p)) = p

\* str.replace(old, ''), old non-empty: every non-overlapping occurrence,
\* left to right
RECURSIVE Remove(_, _)
Remove(s, old) ==
    IF s = <<>> THEN <<>>
    ELSE IF StartsWith(s, old) THEN Remove(SubSeq(s, Len(old) + 1, Len(s)), old)
    ELSE <<Head(s)>> \o Remove(Tail(s), old)

\* str.split(','): the parts between the separators, empty parts included
RECURSIVE SplitAt(_, _, _, _)
SplitAt(s, sep, cur, acc) ==
    IF s = <<>> THEN Append(acc, cur)
    ELSE IF Head(s) = sep THEN SplitAt(Tail(s), sep, <<>>, Append(acc, cur))
    ELSE SplitAt(Tail(s), sep, Append(cur, Head(s)), acc)

Split(s, sep) == SplitAt(s, sep, <<>>, <<>>)

(***************************************************************************)
(* json.loads, for the replies the model draws: an object whose keys and   *)
(* values are string literals without escapes or inner white space         *)
(* ("dict"), a single string literal ("other": valid JSON, not an object), *)
(* anything else raises JSONDecodeError ("invalid").                       *)
(***************************************************************************)
RECURSIVE FindChar(_, _, _)
FindChar(t, c, p) ==
    IF p > Len(t) THEN 0 ELSE IF t[p] = c THEN p ELSE FindChar(t, c, p + 1)

\* the string literal that starts at position p
ParseStr(t, p) ==
    IF p <= Len(t) /\ t[p] = Quote /\ FindChar(t, Quote, p + 1) # 0
    THEN LET e == FindChar(t, Quote, p + 1)
         IN  [ok |-> TRUE, val |-> SubSeq(t, p + 1, e - 1), next |-> e + 1]
    ELSE [ok |-> FALSE, val |-> <<>>, next |-> 0]

NoParse == [ok |-> FALSE, pairs |-> <<>>]

\* "key":"value" members from position p up to the closing brace
RECURSIVE ParseMembers(_, _, _)
ParseMembers(t, p, acc) ==
    LET k == ParseStr(t, p) IN
    IF ~k.ok \/ k.next > Len(t) \/ t[k.next] # ":" THEN NoParse
    ELSE LET v == ParseStr(t, k.next + 1) IN
         IF ~v.ok \/ v.next > Len(t) THEN NoParse
         ELSE IF t[v.next] = ","
              THEN ParseMembers(t, v.next + 1, Append(acc, <<k.val, v.val>>))
         ELSE IF t[v.next] = "}" /\ v.next = Len(t)
              THEN [ok |-> TRUE, pairs |-> Append(acc, <<k.val, v.val>>)]
         ELSE NoParse

json_loads(t) ==
    IF t = <<"{", "}">> THEN [kind |-> "dict", pairs |-> <<>>]
    ELSE IF t # <<>> /\ t[1] = "{"
         THEN LET m == ParseMembers(t, 2, <<>>)
              IN  IF m.ok THEN [kind |-> "dict", pairs |-> m.pairs]
                  ELSE [kind |-> "invalid", pairs |-> <<>>]
    ELSE IF ParseStr(t, 1).ok /\ ParseStr(t, 1).next = Len(t) + 1
         THEN [kind |-> "other", pairs |-> <<>>]
    ELSE [kind |-> "invalid", pairs |-> <<>>]

\* a lookup without default: a missing key gives the error sentinel
DictGet_ErrorOnMissing(pairs, key, default) ==
    LET hits == {k \in 1..Len(pairs) : pairs[k][1] = key}
    IN  IF hits = {} THEN sERROR
        ELSE pairs[CHOOSE k \in hits : \A h \in hits : h <= k][2]

\* dict.get(key, default): the last member with that key wins
DictGet(pairs, key, default) ==
    LET hits == {k \in 1..Len(pairs) : pairs[k][1] = key}
    IN  IF hits = {} THEN default
        ELSE pairs[CHOOSE k \in hits : \A h \in hits : h <= k][2]

(***************************************************************************)
(* The oracle.  A reply of client.chat.completions.create is either an     *)
(* exception (transport, authentication, missing content) or the text of   *)
(* the message.                                                            *)
(***************************************************************************)
Raised == [exc |-> TRUE, content |-> <<>>]
Said(text) == [exc |-> FALSE, content |-> text]

\* the fence removal of both normalize functions
StripFence(content) ==
    LET result == Strip(content) IN
    IF StartsWith(result, sFenceJson)
    THEN Strip(Remove(Remove(result, sFenceJson), sFence))
    ELSE IF StartsWith(result, sFence) THEN Strip(Remove(result, sFence))
    ELSE result

\* normalize_affiliation whose except returns the empty string
normalize_affiliation_EmptyOnFailure(affiliation, reply) ==
    IF reply.exc THEN <<sEmpty>>
    ELSE LET result == StripFence(reply.content)
             json_result == json_loads(result)
         IN  IF json_result.kind = "dict"
             THEN <<DictGet(json_result.pairs, affiliation,
                            IF json_result.pairs # <<>>
                            THEN json_result.pairs[1][2] ELSE result)>>
             ELSE <<result>>

\* normalize_affiliation: the tuple <<llm_normalized>>
normalize_affiliation(affiliation, reply) ==
    IF reply.exc THEN <<sERROR>>
    ELSE LET result == StripFence(reply.content)
             json_result == json_loads(result)
         IN  IF json_result.kind = "dict"
             THEN <<DictGet(json_result.pairs, affiliation,
                            IF json_result.pairs # <<>>
                            THEN json_result.pairs[1][2] ELSE result)>>
             ELSE <<result>>

\* normalize_address that takes the defaults of .get for a reply that is
\* no JSON object
normalize_address_UnknownOnMalformed(address, reply) ==
    IF reply.exc THEN <<sERROR, sERROR>>
    ELSE LET result == StripFence(reply.content)
             json_result == json_loads(result)
         IN  IF json_result.kind = "dict"
             THEN <<DictGet(json_result.pairs, sCountry, sUnknown),
                    DictGet(json_result.pairs, sContinent, sUnknown)>>
             ELSE <<sUnknown, sUnknown>>

\* normalize_address: the tuple <<country, continent>>.  A reply that is
\* valid JSON but no object has no .get: the AttributeError is caught by
\* the outer except.
normalize_address(address, reply) ==
    IF reply.exc THEN <<sERROR, sERROR>>
    ELSE LET result == StripFence(reply.content)
             json_result == json_loads(result)
         IN  IF json_result.kind = "dict"
             THEN <<DictGet(json_result.pairs, sCountry, sUnknown),
                    DictGet(json_result.pairs, sContinent, sUnknown)>>
             ELSE <<sERROR, sERROR>>

normalize(v, original, reply) ==
    IF v = "affiliation" THEN normalize_affiliation(original, reply)
    ELSE normalize_address(original, reply)

(***************************************************************************)
(* Rows of the csv files.                                                  *)
(***************************************************************************)
DigitChars == <<"0", "1", "2", "3", "4", "5", "6", "7", "8", "9">>

\* str(k), k >= 0
RECURSIVE Decimal(_)
Decimal(k) ==
    IF k < 10 THEN <<DigitChars[k + 1]>>
    ELSE Decimal(k \div 10) \o <<DigitChars[(k % 10) + 1]>>

\* row k of affiliations_raw.csv / address_raw.csv; ids need not be unique
RawRow(v, k) ==
    IF v = "affiliation"
    THEN [rfc_id |-> <<"r", "f", "c">> \o Decimal((k + 1) \div 2),
          original_affiliation |-> <<"U">> \o Decimal(k)]
    ELSE [rfc_id |-> <<"r", "f", "c">> \o Decimal((k + 1) \div 2),
          original_address |-> <<"S">> \o Decimal(k)]

Original(v, row) ==
    IF v = "affiliation" THEN row.original_affiliation ELSE row.original_address

\* the dict appended to `validated`; llm and human are the tuples of the
\* variant's fields
ValidatedRow(v, rfc_id, original, llm, human, label) ==
    IF v = "affiliation"
    THEN [rfc_id |-> rfc_id, original_affiliation |-> original,
          llm_normalized |-> llm[1], human_normalized |-> human[1],
          label |-> label]
    ELSE [rfc_id |-> rfc_id, original_address |-> original,
          llm_normalized_country |-> llm[1],
          llm_normalized_continent |-> llm[2],
          human_normalized_country |-> human[1],
          human_normalized_continent |-> human[2],
          label |-> label]

\* the machine and the human value of a row, as tuples of fields
MachineValue(v, row) ==
    IF v = "affiliation" THEN <<row.llm_normalized>>
    ELSE <<row.llm_normalized_country, row.llm_normalized_continent>>

HumanValue(v, row) ==
    IF v = "affiliation" THEN <<row.human_normalized>>
    ELSE <<row.human_normalized_country, row.human_normalized_continent>>

(***************************************************************************)
(* What the environment supplies: oracle replies and typed lines.          *)
(***************************************************************************)
sA == <<"A">>
sB == <<"B">>
sX == <<"X">>

JsonStr(s) == <<Quote>> \o s \o <<Quote>>
JsonObj1(k1, v1) == <<"{">> \o JsonStr(k1) \o <<":">> \o JsonStr(v1) \o <<"}">>
JsonObj2(k1, v1, k2, v2) ==
    <<"{">> \o JsonStr(k1) \o <<":">> \o JsonStr(v1) \o <<",">>
            \o JsonStr(k2) \o <<":">> \o JsonStr(v2) \o <<"}">>
Fenced(body) == sFenceJson \o <<"\n">> \o body \o <<"\n">> \o sFence

\* replies to one call for the raw string `original`; the first raw string
\* of the corpus may also get an empty JSON object for a reply, and in the
\* affiliation script a JSON string or an object under another key
Replies(v, original) ==
    IF v = "affiliation"
    THEN {Raised,
          Said(<<" ">> \o sA \o <<"\n">>),
          Said(sFence \o <<"\n">> \o sA \o <<"\n">> \o sFence),
          Said(Fenced(JsonObj1(original, sB)))}
         \cup (IF original = Original(v, RawRow(v, 1))
               THEN {Said(JsonStr(sA)), Said(JsonObj1(sX, sB)),
                     Said(<<"{", "}">>)}
               ELSE {})
    ELSE {Raised,
          Said(<<"F", "r", "a", "n", "c", "e">>),
          Said(Fenced(JsonObj2(sCountry, sA, sContinent, sX))),
          Said(JsonStr(sA)),
          Said(JsonObj1(sCountry, sB)),
          Said(JsonObj2(sCountry, sA, sContinent, sERROR))}
         \cup (IF original = Original(v, RawRow(v, 1))
               THEN {Said(<<"{", "}">>)} ELSE {})

\* the reply a stable oracle gives on every call
StableReply(v, original) ==
    IF v = "affiliation" THEN Said(<<" ">> \o sA \o <<"\n">>)
    ELSE Said(Fenced(JsonObj2(sCountry, sA, sContinent, sX)))

\* the word quit as a human may type it
QuitWords == {sQuit, <<"Q", "U", "I", "T">>, <<"Q", "u", "i", "t">>}

\* lines typed at "Proceed ... (y/n): "
ConfirmLines == {sYes, <<"Y">>, <<"n">>} \cup QuitWords

\* lines typed at "Press ENTER to continue or 'quit' to exit: "
ErrorLines == {sEmpty} \cup QuitWords

\* lines typed at "Correct normalization ...: "
HumanLines(v) ==
    {sEmpty, <<" ">>, <<"Q", "u", "i", "t", " ">>} \cup QuitWords
    \cup (IF v = "affiliation" THEN {sA, <<" ">> \o sB}
          ELSE {<<"A", ",", "X">>, <<" ", "A", " ", ",", " ", "X">>,
                <<"B", ",", "X">>, sA, <<"A", ",", "X", ",", "X">>,
                <<",">>})

\* the reply of an unstable oracle that differs from the stable one
AltReply(v, original) ==
    IF v = "affiliation" THEN Said(Fenced(JsonObj1(original, sB)))
    ELSE Said(JsonObj1(sCountry, sB))

\* the three replies to the three runs of one sampled case
StableRuns(v, original) ==
    [k \in 1..Runs |-> StableReply(v, original)]

FlakyRuns(v, original) ==
    {[k \in 1..Runs |-> IF k < Runs THEN StableReply(v, original)
                        ELSE AltReply(v, original)],
     [k \in 1..Runs |-> IF k = 1 THEN StableReply(v, original)
                        ELSE IF k = 2 THEN AltReply(v, original)
                        ELSE Raised]}

(***************************************************************************)
(* Files.  A csv file is absent, or holds its header and a list of rows.   *)
(***************************************************************************)
Absent == [exists |-> FALSE, readable |-> FALSE, rows |-> <<>>]
File(rows) == [exists |-> TRUE, readable |-> TRUE, rows |-> rows]
\* a file that open() or the csv reader fails on (permissions, encoding)
Unreadable(rows) == [exists |-> TRUE, readable |-> FALSE, rows |-> rows]

GoldFields(v) ==
    IF v = "affiliation"
    THEN {"rfc_id", "original_affiliation", "llm_normalized",
          "human_normalized", "label"}
    ELSE {"rfc_id", "original_address", "llm_normalized_country",
          "llm_normalized_continent", "human_normalized_country",
          "human_normalized_continent", "label"}

\* fieldnames of save_error_samples
ErrorFields ==
    {"rfc_id", "original_address", "llm_normalized_country",
     "llm_normalized_continent", "human_normalized_country",
     "human_normalized_continent"}

\* csv.DictWriter.writerows with extrasaction='raise': the rows before the
\* first dict that has a key outside fieldnames are written, that dict
\* raises ValueError
RECURSIVE GoodPrefix(_, _)
GoodPrefix(fieldnames, rows) ==
    IF rows = <<>> \/ ~(DOMAIN Head(rows) \subseteq fieldnames) THEN <<>>
    ELSE <<Head(rows)>> \o GoodPrefix(fieldnames, Tail(rows))

\* a rewrite that writes the newest row first
writerows_NewestFirst(fieldnames, rows) ==
    [raised |-> FALSE,
     rows |-> [k \in 1..Len(rows) |-> rows[Len(rows) + 1 - k]]]

\* a rewrite that writes the newest row only
writerows_LastRowOnly(fieldnames, rows) ==
    [raised |-> FALSE,
     rows |-> IF rows = <<>> THEN <<>> ELSE <<rows[Len(rows)]>>]

writerows(fieldnames, rows) ==
    [raised |-> GoodPrefix(fieldnames, rows) # rows,
     rows |-> GoodPrefix(fieldnames, rows)]

\* the proper prefixes of rows: what a write that fails after open(.., 'w')
\* may leave behind
ProperPrefixes(rows) == {SubSeq(rows, 1, n) : n \in 0..(Len(rows) - 1)}

\* a gold set found on disk: row k of the corpus, machine value A (A, X)
GoldRow(v, k, label) ==
    ValidatedRow(v, RawRow(v, k).rfc_id, Original(v, RawRow(v, k)),
                 IF v = "affiliation" THEN <<sA>> ELSE <<sA, sX>>,
                 IF label = sR
                 THEN (IF v = "affiliation" THEN <<sA>> ELSE <<sA, sX>>)
                 ELSE (IF v = "affiliation" THEN <<sB>> ELSE <<sB, sX>>),
                 label)

GoldSizes == (1..2) \cup ((MinCorrect - 1)..(MinCorrect + MaxExtra))

\* gold sets of n rows: the first row is labelled r, w or R (a label some
\* editor left), the last r or w, every other row r
GoldSets(v) ==
    {[k \in 1..n |-> GoldRow(v, k, IF k = 1 THEN first
                                   ELSE IF k = n THEN last ELSE sR)] :
        <<n, first, last>> \in
            {t \in GoldSizes \X {sR, sW, <<"R">>} \X {sR, sW} :
                t[1] = 1 => t[3] = sR}}

\* the raw csv: missing, without the columns, unreadable, or k rows
InputFiles(v) ==
    {[exists |-> FALSE, columns |-> FALSE, readable |-> FALSE, rows |-> <<>>],
     [exists |-> TRUE, columns |-> FALSE, readable |-> TRUE, rows |-> <<>>],
     [exists |-> TRUE, columns |-> TRUE, readable |-> FALSE, rows |-> <<>>]}
    \cup {[exists |-> TRUE, columns |-> TRUE, readable |-> TRUE,
           rows |-> [k \in 1..n |-> RawRow(v, k)]] : n \in 0..MaxCorpus}

(***************************************************************************)
(* State.                                                                  *)
(***************************************************************************)
VARIABLES
    variant,            \* which script runs
    api_key,            \* os.getenv("OPENAI_API_KEY") is set
    input_file,         \* affiliations_raw.csv / address_raw.csv
    output_file,        \* gold_set.csv / address_gold_set.csv
    error_file,         \* address_error_samples.csv
    consistency_file,   \* consistency_check.csv / address_consistency_check.csv
    pc,                 \* position in validate_normalizations / print_statistics
    existing,           \* load_existing_gold_set() returned rows
    addresses,          \* the list `affiliations` / `addresses`
    i,                  \* loop variable of the per-item loop
    range_next,         \* next value the range iterator yields
    llm,                \* machine value of the item in hand
    validated,          \* the list `validated`
    stats,              \* N, r, w, accuracy, error_rate of print_statistics
    sample_cases,       \* positions in `validated` of the sampled cases
    consistency_results,
    inconsistent_count,
    total_variance,
    summary,            \* consistency_rate and avg_variance
    oracle_calls,       \* calls of normalize_affiliation / normalize_address
    prompts,            \* calls of input()
    report,             \* messages printed
    outcome,            \* how validate_normalizations ended
    exit_by,            \* how the per-item loop was left
    entry_rows          \* rows of the gold set file when the run started

vars == <<variant, api_key, input_file, output_file, error_file,
          consistency_file, pc, existing, addresses, i, range_next, llm,
          validated, stats, sample_cases, consistency_results,
          inconsistent_count, total_variance, summary, oracle_calls,
          prompts, report, outcome, exit_by, entry_rows>>

env == <<variant, api_key, input_file, entry_rows>>
files == <<output_file, error_file, consistency_file>>
loop == <<addresses, i, range_next, llm>>
consistency == <<sample_cases, consistency_results, inconsistent_count,
                 total_variance, summary>>

Msg(m, a, b) == [msg |-> m, a |-> a, b |-> b]
NoStats == [N |-> -1, r |-> -1, w |-> -1,
            accuracy |-> [num |-> 0, den |-> 1],
            error_rate |-> [num |-> 0, den |-> 1]]
NoSummary == [samples |-> 0, consistency_rate |-> [num |-> 0, den |-> 1],
              avg_variance |-> [num |-> 0, den |-> 1]]

Init ==
    /\ variant \in {"affiliation", "address"}
    /\ api_key \in BOOLEAN
    /\ output_file \in
         {Absent, File(<<>>)}
         \cup {File(g) : g \in GoldSets(variant)}
         \cup {Unreadable(g) : g \in {h \in GoldSets(variant) : Len(h) = 1}}
    \* a run that finds a gold set never looks at the raw csv: one raw csv
    \* stands for all of them there
    /\ input_file \in
         IF output_file.exists /\ output_file.readable /\ output_file.rows # <<>>
         THEN {f \in InputFiles(variant) : Len(f.rows) = MaxCorpus}
         ELSE InputFiles(variant)
    /\ entry_rows = output_file.rows
    /\ exit_by = "none"
    /\ error_file = Absent
    /\ consistency_file = Absent
    /\ pc = "load"
    /\ existing = FALSE
    /\ addresses = <<>>
    /\ i = 0
    /\ range_next = 0
    /\ llm = <<>>
    /\ validated = <<>>
    /\ stats = NoStats
    /\ sample_cases = <<>>
    /\ consistency_results = <<>>
    /\ inconsistent_count = 0
    /\ total_variance = 0
    /\ summary = NoSummary
    /\ oracle_calls = 0
    /\ prompts = 0
    /\ report = {}
    /\ outcome = "running"

(***************************************************************************)
(* validate_normalizations                                                 *)
(***************************************************************************)
\* the function returns without statistics
Return(how, msgs) ==
    /\ pc' = "done"
    /\ outcome' = how
    /\ report' = report \cup msgs

\* load_existing_gold_set that takes the first data row for the header
load_existing_gold_set_SkipsFirstRow(file) ==
    IF ~file.exists THEN [rows |-> <<>>, msgs |-> {}]
    ELSE IF ~file.readable
    THEN [rows |-> <<>>, msgs |-> {Msg("warning_could_not_read", 0, 0)}]
    ELSE [rows |-> IF file.rows = <<>> THEN <<>> ELSE Tail(file.rows),
          msgs |-> {}]

\* load_existing_gold_set: the rows of the gold set, <<>> for None.  A read
\* that raises is reported and gives None, as do an absent file and a file
\* without rows.
load_existing_gold_set(file) ==
    IF ~file.exists THEN [rows |-> <<>>, msgs |-> {}]
    ELSE IF ~file.readable
    THEN [rows |-> <<>>, msgs |-> {Msg("warning_could_not_read", 0, 0)}]
    ELSE [rows |-> file.rows, msgs |-> {}]

\* a resume rule that reports the gold set it found and then goes on to
\* the session
LoadExisting_GoesOnToSession ==
    /\ pc = "load"
    /\ \E existing_data \in {load_existing_gold_set(output_file)} :
         /\ existing' = (existing_data.rows # <<>>)
         /\ validated' = existing_data.rows
         /\ pc' = "check_input"
         /\ report' = report \cup existing_data.msgs
              \cup (IF existing_data.rows # <<>>
                    THEN {Msg("existing_gold_set_found",
                              Len(existing_data.rows), 0)}
                    ELSE {Msg("no_existing_gold_set", 0, 0)})
    /\ UNCHANGED <<env, files, loop, stats, consistency, oracle_calls,
                   prompts, outcome, exit_by>>

\* the resume rule at the top of validate_normalizations
LoadExisting ==
    /\ pc = "load"
    /\ \E existing_data \in {load_existing_gold_set(output_file)} :
         /\ existing' = (existing_data.rows # <<>>)
         /\ validated' = existing_data.rows
         /\ pc' = IF existing_data.rows # <<>> THEN "stats" ELSE "check_input"
         /\ report' = report \cup existing_data.msgs
              \cup (IF existing_data.rows # <<>>
                    THEN {Msg("existing_gold_set_found",
                              Len(existing_data.rows), 0)}
                    ELSE {Msg("no_existing_gold_set", 0, 0)})
    /\ UNCHANGED <<env, files, loop, stats, consistency, oracle_calls,
                   prompts, outcome, exit_by>>

\* the checks without the one for OPENAI_API_KEY
CheckInput_WithoutKeyCheck ==
    /\ pc = "check_input"
    /\ IF ~input_file.exists
       THEN Return("precondition", {Msg("input_file_not_found", 0, 0)})
            /\ UNCHANGED addresses
       ELSE IF ~input_file.readable
       THEN Return("precondition", {Msg("error_reading_input", 0, 0)})
            /\ UNCHANGED addresses
       ELSE IF ~input_file.columns
       THEN Return("precondition", {Msg("missing_columns", 0, 0)})
            /\ UNCHANGED addresses
       ELSE IF input_file.rows = <<>>
       THEN Return("precondition", {Msg("no_rows", 0, 0)})
            /\ UNCHANGED addresses
       ELSE /\ addresses' = input_file.rows
            /\ pc' = "confirm"
            /\ report' = report \cup {Msg("total", Len(input_file.rows), 0)}
            /\ UNCHANGED outcome
    /\ UNCHANGED <<env, files, existing, i, range_next, llm, validated, stats,
                   consistency, oracle_calls, prompts, exit_by>>

\* the checks between the resume rule and the confirmation prompt
CheckInput ==
    /\ pc = "check_input"
    /\ IF ~input_file.exists
       THEN Return("precondition", {Msg("input_file_not_found", 0, 0)})
            /\ UNCHANGED addresses
       ELSE IF ~api_key
       THEN Return("precondition", {Msg("api_key_not_set", 0, 0)})
            /\ UNCHANGED addresses
       ELSE IF ~input_file.readable
       THEN Return("precondition", {Msg("error_reading_input", 0, 0)})
            /\ UNCHANGED addresses
       ELSE IF ~input_file.columns
       THEN Return("precondition", {Msg("missing_columns", 0, 0)})
            /\ UNCHANGED addresses
       ELSE IF input_file.rows = <<>>
       THEN Return("precondition", {Msg("no_rows", 0, 0)})
            /\ UNCHANGED addresses
       ELSE /\ addresses' = input_file.rows
            /\ pc' = "confirm"
            /\ report' = report \cup {Msg("total", Len(input_file.rows), 0)}
            /\ UNCHANGED outcome
    /\ UNCHANGED <<env, files, existing, i, range_next, llm, validated, stats,
                   consistency, oracle_calls, prompts, exit_by>>

\* "Proceed with GPT-4.1 normalization and validation? (y/n): "
ConfirmOn(response) ==
    /\ pc = "confirm"
    /\ IF Lower(response) # sYes
       THEN Return("cancelled", {Msg("cancelled", 0, 0)})
            /\ UNCHANGED <<i, range_next>>
       ELSE /\ i' = 0
            /\ range_next' = 1
            /\ pc' = "oracle"
            /\ UNCHANGED <<report, outcome>>
    /\ prompts' = prompts + 1
    /\ UNCHANGED <<env, files, existing, addresses, llm, validated, stats,
                   consistency, oracle_calls, exit_by>>

Confirm == \E response \in ConfirmLines : ConfirmOn(response)

\* the error test with `and` for `or`
IsError_BothFields(v, value) ==
    IF v = "affiliation" THEN value[1] = sERROR
    ELSE value[1] = sERROR /\ value[2] = sERROR

\* the machine value is the error sentinel
IsError(v, value) ==
    IF v = "affiliation" THEN value[1] = sERROR
    ELSE value[1] = sERROR \/ value[2] = sERROR

\* the top of the loop body: the oracle call for item i
GetNormalizationOn(reply) ==
    /\ pc = "oracle"
    /\ \E value \in {normalize(variant, Original(variant, addresses[i + 1]),
                               reply)} :
             /\ llm' = value
             /\ pc' = IF IsError(variant, value) THEN "error_prompt"
                      ELSE "human"
             /\ report' = report
                  \cup (IF IsError(variant, value)
                        THEN {Msg("failed_to_get_normalization", i, 0)}
                        ELSE {})
    /\ oracle_calls' = oracle_calls + 1
    /\ UNCHANGED <<env, files, existing, addresses, i, range_next, validated,
                   stats, consistency, prompts, outcome, exit_by>>

GetNormalization ==
    /\ pc = "oracle"
    /\ \E reply \in Replies(variant, Original(variant, addresses[i + 1])) :
         GetNormalizationOn(reply)

\* a loop that counts in i itself (`while i < len(addresses): ...; i += 1`):
\* what the body did to i decides which item comes next
Continue_FromBodyIndex(body_i) ==
    IF body_i + 1 < Len(addresses)
    THEN /\ i' = body_i + 1
         /\ range_next' = body_i + 2
         /\ pc' = "oracle"
         /\ UNCHANGED exit_by
    ELSE /\ i' = body_i
         /\ UNCHANGED range_next
         /\ pc' = "final"
         /\ exit_by' = "exhausted"

\* `continue`, or the end of the loop body: the for statement takes the
\* next value of range(len(addresses)), whatever the body did to i
Continue(body_i) ==
    IF range_next < Len(addresses)
    THEN /\ i' = range_next
         /\ range_next' = range_next + 1
         /\ pc' = "oracle"
         /\ UNCHANGED exit_by
    ELSE /\ i' = body_i
         /\ UNCHANGED range_next
         /\ pc' = "final"
         /\ exit_by' = "exhausted"

\* a quit that only skips the item in hand (`continue` for `break`)
Break_AsContinue(kind) ==
    /\ exit_by' = kind
    /\ IF range_next < Len(addresses)
       THEN /\ i' = range_next
            /\ range_next' = range_next + 1
            /\ pc' = "oracle"
       ELSE /\ pc' = "final"
            /\ UNCHANGED <<i, range_next>>

\* `break`: at the correction prompt ("quit") or at the error prompt
\* ("abort")
Break(kind) ==
    /\ pc' = "final"
    /\ exit_by' = kind
    /\ UNCHANGED <<i, range_next>>

\* "Press ENTER to continue or 'quit' to exit: "
ErrorPromptOn(response) ==
    /\ pc = "error_prompt"
    /\ IF Lower(response) = sQuit THEN Break("abort") ELSE Continue(i)
    /\ prompts' = prompts + 1
    /\ UNCHANGED <<env, files, existing, addresses, llm, validated, stats,
                   consistency, oracle_calls, report, outcome>>

ErrorPrompt == \E response \in ErrorLines : ErrorPromptOn(response)

\* human value and label of a correction that is not quit
\* (ok = FALSE: the address script rejects the line)
Judge(v, value, human_input) ==
    IF human_input = <<>>
    THEN [ok |-> TRUE, human |-> value, label |-> sR]
    ELSE IF v = "affiliation"
    THEN [ok |-> TRUE, human |-> <<human_input>>, label |-> sW]
    ELSE LET split == Split(human_input, ",")
             parts == [k \in 1..Len(split) |-> Strip(split[k])]
         IN  IF Len(parts) # 2
             THEN [ok |-> FALSE, human |-> value, label |-> sW]
             ELSE [ok |-> TRUE, human |-> <<parts[1], parts[2]>>,
                   label |-> IF parts[1] = value[1] /\ parts[2] = value[2]
                             THEN sR ELSE sW]

\* a failed rewrite of the gold set that is reported and then ignored
HumanValidationOn_GoesOnAfterFailedWrite(line) ==
    /\ pc = "human"
    /\ prompts' = prompts + 1
    /\ \E write_ok \in BOOLEAN :
       \E human_input \in {Strip(line)} :
       \E verdict \in {Judge(variant, llm, human_input)} :
         LET row == ValidatedRow(variant, addresses[i + 1].rfc_id,
                                 Original(variant, addresses[i + 1]),
                                 llm, verdict.human, verdict.label)
         IN  IF Lower(human_input) = sQuit
             THEN /\ Break("quit")
                  /\ report' = report
                       \cup {Msg("saving_progress", Len(validated),
                                 Len(addresses))}
                  /\ UNCHANGED <<validated, output_file, outcome>>
             ELSE IF ~verdict.ok
             THEN /\ Continue(i - 1)
                  /\ report' = report \cup {Msg("bad_format", i, 0)}
                  /\ UNCHANGED <<validated, output_file, outcome>>
             ELSE /\ validated' = Append(validated, row)
                  /\ IF write_ok
                     THEN /\ output_file' =
                               File(writerows(GoldFields(variant),
                                              validated').rows)
                          /\ Continue(i)
                          /\ UNCHANGED <<report, outcome>>
                     ELSE /\ output_file' \in
                               {output_file}
                               \cup {File(p) : p \in ProperPrefixes(validated')}
                          /\ Continue(i)
                          /\ report' = report
                               \cup {Msg("error_saving_output", 0, 0)}
                          /\ UNCHANGED outcome
    /\ UNCHANGED <<env, error_file, consistency_file, existing, addresses,
                   llm, stats, consistency, oracle_calls>>

\* "Correct normalization ...: ", the new row and the rewrite of the gold set
HumanValidationOn(line) ==
    /\ pc = "human"
    /\ prompts' = prompts + 1
    /\ \E write_ok \in BOOLEAN :
       \E human_input \in {Strip(line)} :
       \E verdict \in {Judge(variant, llm, human_input)} :
         LET row == ValidatedRow(variant, addresses[i + 1].rfc_id,
                                 Original(variant, addresses[i + 1]),
                                 llm, verdict.human, verdict.label)
         IN  IF Lower(human_input) = sQuit
             THEN /\ Break("quit")
                  /\ report' = report
                       \cup {Msg("saving_progress", Len(validated),
                                 Len(addresses))}
                  /\ UNCHANGED <<validated, output_file, outcome>>
             ELSE IF ~verdict.ok
             THEN /\ Continue(i - 1)
                  /\ report' = report \cup {Msg("bad_format", i, 0)}
                  /\ UNCHANGED <<validated, output_file, outcome>>
             ELSE /\ validated' = Append(validated, row)
                  /\ IF write_ok
                     THEN /\ output_file' =
                               File(writerows(GoldFields(variant),
                                              validated').rows)
                          /\ Continue(i)
                          /\ UNCHANGED <<report, outcome>>
                     ELSE /\ output_file' \in
                               {output_file}
                               \cup {File(p) : p \in ProperPrefixes(validated')}
                          /\ Return("persistence",
                                    {Msg("error_saving_output", 0, 0)})
                          /\ UNCHANGED <<i, range_next, exit_by>>
    /\ UNCHANGED <<env, error_file, consistency_file, existing, addresses,
                   llm, stats, consistency, oracle_calls>>

HumanValidation == \E line \in HumanLines(variant) : HumanValidationOn(line)

\* statistics only after a loop that ran to the end of the corpus
FinalSummary_AfterFullRunOnly ==
    /\ pc = "final"
    /\ IF validated # <<>> /\ exit_by = "exhausted"
       THEN /\ pc' = "stats"
            /\ UNCHANGED <<report, outcome>>
       ELSE Return("finished", {Msg("output_files", 0, 0)})
    /\ UNCHANGED <<env, files, existing, loop, validated, stats, consistency,
                   oracle_calls, prompts, exit_by>>

\* after the loop: `if validated: print_statistics(validated)`, then the
\* closing lines
FinalSummary ==
    /\ pc = "final"
    /\ IF validated # <<>>
       THEN /\ pc' = "stats"
            /\ UNCHANGED <<report, outcome>>
       ELSE Return("finished", {Msg("output_files", 0, 0)})
    /\ UNCHANGED <<env, files, existing, loop, validated, stats, consistency,
                   oracle_calls, prompts, exit_by>>

(***************************************************************************)
(* print_statistics                                                        *)
(***************************************************************************)
Percent(part, whole) ==
    IF whole > 0 THEN [num |-> part * 100, den |-> whole]
    ELSE [num |-> 0, den |-> 1]

\* statistics that count w from the label 'w' instead of N - r
Statistics_CountsLabelW(rows) ==
    LET N == Len(rows)
        r == Cardinality({k \in 1..N : rows[k].label = sR})
        w == Cardinality({k \in 1..N : rows[k].label = sW})
    IN  [N |-> N, r |-> r, w |-> w,
         accuracy |-> Percent(r, N), error_rate |-> Percent(w, N)]

\* N, r, w, accuracy and error_rate; the percentages are kept as exact
\* fractions num/den
Statistics(rows) ==
    LET N == Len(rows)
        r == Cardinality({k \in 1..N : rows[k].label = sR})
        w == N - r
    IN  [N |-> N, r |-> r, w |-> w,
         accuracy |-> Percent(r, N), error_rate |-> Percent(w, N)]

\* positions of the rows selected by a list comprehension, in list order
RECURSIVE Positions(_, _, _)
Positions(rows, label, k) ==
    IF k > Len(rows) THEN <<>>
    ELSE (IF rows[k].label = label THEN <<k>> ELSE <<>>)
         \o Positions(rows, label, k + 1)

\* error_cases of save_error_samples
ErrorCases(rows) ==
    LET at == Positions(rows, sW, 1) IN [k \in 1..Len(at) |-> rows[at[k]]]

\* an export that opens the audit file before it looks for error cases
save_error_samples_AlwaysWrites(rows, file) ==
    LET out == writerows(ErrorFields, ErrorCases(rows))
    IN  [file |-> File(out.rows),
         msgs |-> IF ErrorCases(rows) = <<>>
                  THEN {Msg("no_error_cases", 0, 0)}
                  ELSE IF out.raised
                  THEN {Msg("error_saving_error_samples", 0, 0)}
                  ELSE {Msg("error_samples_saved", Len(ErrorCases(rows)), 0)}]

\* save_error_samples: the audit file and the messages it prints
save_error_samples(rows, file) ==
    IF ErrorCases(rows) = <<>>
    THEN [file |-> file, msgs |-> {Msg("no_error_cases", 0, 0)}]
    ELSE LET out == writerows(ErrorFields, ErrorCases(rows))
         IN  [file |-> File(out.rows),
              msgs |-> IF out.raised
                       THEN {Msg("error_saving_error_samples", 0, 0)}
                       ELSE {Msg("error_samples_saved",
                                 Len(ErrorCases(rows)), 0)}]

\* correct_cases without the filter on the label
CorrectCases_EveryRow(rows) == [k \in 1..Len(rows) |-> k]

\* correct_cases, as positions in `validated`
CorrectCases(rows) == Positions(rows, sR, 1)

\* random.choices(population, k=k): k draws with replacement
RandomSample_WithReplacement(population, k) ==
    {[j \in 1..k |-> population[1 + ((j * m) % Len(population))]] :
        m \in 0..1}

\* random.sample(population, k): k elements at distinct positions of the
\* population.  The order of the draw only orders the report; the model
\* keeps the population's order.
RECURSIVE RandomSample(_, _)
RandomSample(population, k) ==
    IF k = 0 THEN {<<>>}
    ELSE IF Len(population) < k THEN {}
    ELSE {<<Head(population)>> \o rest :
              rest \in RandomSample(Tail(population), k - 1)}
         \cup RandomSample(Tail(population), k)

\* the larger of the two: a sample of every accepted record
Min_AsMax(a, b) == IF a <= b THEN b ELSE a

Min(a, b) == IF a <= b THEN a ELSE b

\* the function returns, and validate_normalizations prints its closing
\* lines unless it took the resume path
StatsReturn(msgs) ==
    Return(IF existing THEN "resumed" ELSE "finished",
           msgs \cup (IF existing THEN {} ELSE {Msg("output_files", 0, 0)}))

\* the report, the error export and the gate of the consistency check
PrintStatistics ==
    /\ pc = "stats"
    /\ stats' = Statistics(validated)
    /\ LET saved == IF variant = "address"
                    THEN save_error_samples(validated, error_file)
                    ELSE [file |-> error_file, msgs |-> {}]
           correct_cases == CorrectCases(validated)
       IN  /\ error_file' = saved.file
           /\ IF Len(correct_cases) >= MinCorrect
              THEN IF ~api_key
                   THEN /\ StatsReturn(saved.msgs
                               \cup {Msg("skipping_consistency_check", 0, 0)})
                        /\ UNCHANGED sample_cases
                   ELSE /\ sample_cases' \in
                             RandomSample(correct_cases,
                                          Min(SampleSize, Len(correct_cases)))
                        /\ pc' = "consistency"
                        /\ report' = report \cup saved.msgs
                             \cup {Msg("running_consistency_check", 0, 0)}
                        /\ UNCHANGED outcome
              ELSE /\ StatsReturn(saved.msgs
                          \cup {Msg("not_enough_correct_samples", MinCorrect,
                                    Len(correct_cases))})
                   /\ UNCHANGED sample_cases
    /\ UNCHANGED <<env, output_file, consistency_file, existing, loop,
                   validated, consistency_results, inconsistent_count,
                   total_variance, summary, oracle_calls, prompts,
                   exit_by>>

sYesWord == <<"Y", "e", "s">>
sNoWord == <<"N", "o">>

\* a consistency test that compares the second run with the first and
\* leaves the third out
ConsistencyRow_ComparesFirstTwoRuns(v, case, runs) ==
    LET all_same == runs[2] = runs[1]
        unique_outputs == Cardinality({runs[k] : k \in 1..Len(runs)})
        variance == unique_outputs - 1
    IN  IF v = "affiliation"
        THEN [rfc_id |-> case.rfc_id,
              original_affiliation |-> case.original_affiliation,
              human_normalized |-> case.human_normalized,
              run_1 |-> runs[1][1], run_2 |-> runs[2][1],
              run_3 |-> runs[3][1],
              unique_outputs |-> unique_outputs, variance |-> variance,
              consistent |-> IF all_same THEN sYesWord ELSE sNoWord]
        ELSE [rfc_id |-> case.rfc_id,
              original_address |-> case.original_address,
              human_country |-> case.human_normalized_country,
              human_continent |-> case.human_normalized_continent,
              run_1_country |-> runs[1][1], run_1_continent |-> runs[1][2],
              run_2_country |-> runs[2][1], run_2_continent |-> runs[2][2],
              run_3_country |-> runs[3][1], run_3_continent |-> runs[3][2],
              unique_outputs |-> unique_outputs, variance |-> variance,
              consistent |-> IF all_same THEN sYesWord ELSE sNoWord]

\* the row of consistency_results for one sampled case
ConsistencyRow(v, case, runs) ==
    LET all_same == \A k \in 1..Len(runs) : runs[k] = runs[1]
        unique_outputs == Cardinality({runs[k] : k \in 1..Len(runs)})
        variance == unique_outputs - 1
    IN  IF v = "affiliation"
        THEN [rfc_id |-> case.rfc_id,
              original_affiliation |-> case.original_affiliation,
              human_normalized |-> case.human_normalized,
              run_1 |-> runs[1][1], run_2 |-> runs[2][1],
              run_3 |-> runs[3][1],
              unique_outputs |-> unique_outputs, variance |-> variance,
              consistent |-> IF all_same THEN sYesWord ELSE sNoWord]
        ELSE [rfc_id |-> case.rfc_id,
              original_address |-> case.original_address,
              human_country |-> case.human_normalized_country,
              human_continent |-> case.human_normalized_continent,
              run_1_country |-> runs[1][1], run_1_continent |-> runs[1][2],
              run_2_country |-> runs[2][1], run_2_continent |-> runs[2][2],
              run_3_country |-> runs[3][1], run_3_continent |-> runs[3][2],
              unique_outputs |-> unique_outputs, variance |-> variance,
              consistent |-> IF all_same THEN sYesWord ELSE sNoWord]

\* runs in which a call that fails repeats the output of the run before it
RunValues_RepeatsAfterFailure(v, original, replies) ==
    [k \in 1..Runs |->
        IF k > 1 /\ replies[k] = Raised
        THEN normalize(v, original, replies[k - 1])
        ELSE normalize(v, original, replies[k])]

\* the machine values of the three runs for one triple of replies
RunValues(v, original, replies) ==
    [k \in 1..Runs |-> normalize(v, original, replies[k])]

\* one iteration of `for idx, case in enumerate(sample_cases, 1)`: three
\* oracle calls and the row they give
ConsistencyCaseOn(replies) ==
    /\ pc = "consistency"
    /\ Len(consistency_results) < Len(sample_cases)
    /\ \E case \in {validated[sample_cases[Len(consistency_results) + 1]]} :
       \E runs \in {RunValues(variant, Original(variant, case), replies)} :
       \E row \in {ConsistencyRow(variant, case, runs)} :
         /\ consistency_results' = Append(consistency_results, row)
         /\ total_variance' = total_variance + row.variance
         /\ inconsistent_count' =
                inconsistent_count
                + (IF row.consistent = sNoWord THEN 1 ELSE 0)
    /\ oracle_calls' = oracle_calls + Runs
    /\ UNCHANGED <<env, files, pc, existing, loop, validated, stats,
                   sample_cases, summary, prompts, report, outcome, exit_by>>

\* the replies the oracle may give to the three runs of the next case
CaseReplies ==
    LET case == validated[sample_cases[Len(consistency_results) + 1]] IN
    {StableRuns(variant, Original(variant, case))}
    \cup (IF Len(consistency_results) < MaxFlaky
          THEN FlakyRuns(variant, Original(variant, case))
          ELSE {})

ConsistencyCase ==
    /\ pc = "consistency"
    /\ Len(consistency_results) < Len(sample_cases)
    /\ \E replies \in CaseReplies : ConsistencyCaseOn(replies)

\* a consistency check that saves its rows in the gold set file
ConsistencyReport_WritesToGoldSet ==
    /\ pc = "consistency"
    /\ Len(consistency_results) = Len(sample_cases)
    /\ summary' =
         [samples |-> ReportedSamples,
          consistency_rate |->
              [num |-> (ReportedSamples - inconsistent_count) * 100,
               den |-> ReportedSamples],
          avg_variance |-> [num |-> total_variance, den |-> ReportedSamples]]
    /\ output_file' = File(consistency_results)
    /\ StatsReturn({Msg("consistency_results_saved", 0, 0)})
    /\ UNCHANGED <<env, consistency_file, error_file, existing, loop,
                   validated, stats, sample_cases, consistency_results,
                   inconsistent_count, total_variance, oracle_calls,
                   prompts, exit_by>>

\* after the loop: the aggregates and consistency_check.csv.  A write that
\* raises is reported; it leaves the file as it was (open failed) or with
\* its header only.
ConsistencyReport ==
    /\ pc = "consistency"
    /\ Len(consistency_results) = Len(sample_cases)
    /\ summary' =
         [samples |-> ReportedSamples,
          consistency_rate |->
              [num |-> (ReportedSamples - inconsistent_count) * 100,
               den |-> ReportedSamples],
          avg_variance |-> [num |-> total_variance, den |-> ReportedSamples]]
    /\ \E write_ok \in BOOLEAN :
         IF write_ok
         THEN /\ consistency_file' = File(consistency_results)
              /\ StatsReturn({Msg("consistency_results_saved", 0, 0)})
         ELSE /\ consistency_file' \in {consistency_file, File(<<>>)}
              /\ StatsReturn({Msg("error_saving_consistency_results", 0, 0)})
    /\ UNCHANGED <<env, output_file, error_file, existing, loop, validated,
                   stats, sample_cases, consistency_results,
                   inconsistent_count, total_variance, oracle_calls,
                   prompts, exit_by>>

Next ==
    \/ LoadExisting
    \/ CheckInput
    \/ Confirm
    \/ GetNormalization
    \/ ErrorPrompt
    \/ HumanValidation
    \/ FinalSummary
    \/ PrintStatistics
    \/ ConsistencyCase
    \/ ConsistencyReport

Spec == Init /\ [][Next]_vars

(***************************************************************************)
(* print_statistics called on its own, on any list of rows (the empty      *)
(* list included, which validate_normalizations never passes).             *)
(***************************************************************************)
InitStats ==
    /\ variant \in {"affiliation", "address"}
    /\ api_key \in BOOLEAN
    /\ validated \in {<<>>} \cup GoldSets(variant)
    /\ output_file = IF validated = <<>> THEN Absent ELSE File(validated)
    /\ input_file \in {f \in InputFiles(variant) : Len(f.rows) = MaxCorpus}
    /\ entry_rows = output_file.rows
    /\ exit_by = "none"
    /\ error_file = Absent
    /\ consistency_file = Absent
    /\ pc = "stats"
    /\ existing = TRUE
    /\ addresses = <<>>
    /\ i = 0
    /\ range_next = 0
    /\ llm = <<>>
    /\ stats = NoStats
    /\ sample_cases = <<>>
    /\ consistency_results = <<>>
    /\ inconsistent_count = 0
    /\ total_variance = 0
    /\ summary = NoSummary
    /\ oracle_calls = 0
    /\ prompts = 0
    /\ report = {}
    /\ outcome = "running"

NextStats ==
    \/ PrintStatistics
    \/ ConsistencyCase
    \/ ConsistencyReport

SpecStats == InitStats /\ [][NextStats]_vars

(***************************************************************************)
(* Properties.                                                             *)
(***************************************************************************)
\* some field of a machine value is the sentinel "ERROR"
HasErrorField(value) == \E k \in DOMAIN value : value[k] = sERROR

\* number of rows with (without) the label r
Accepted(rows) == Cardinality({k \in 1..Len(rows) : rows[k].label = sR})
NotAccepted(rows) == Cardinality({k \in 1..Len(rows) : rows[k].label # sR})

\* the rows labelled w, in order, restricted to the given columns
RECURSIVE RejectedRows(_, _)
RejectedRows(rows, fields) ==
    IF rows = <<>> THEN <<>>
    ELSE (IF Head(rows).label = sW
          THEN <<[f \in fields |-> Head(rows)[f]]>> ELSE <<>>)
         \o RejectedRows(Tail(rows), fields)

\* the records the gold set yields when it is read back
StoreRows == load_existing_gold_set(output_file).rows

OracleFailed == \E m \in report : m.msg = "failed_to_get_normalization"

\* C1: every record the session creates is labelled r exactly when its
\* human value equals its machine value in every field.
C1_LabelIffHumanEqualsMachine ==
    ~existing =>
        \A k \in 1..Len(validated) :
            (validated[k].label = sR)
            <=> (HumanValue(variant, validated[k])
                 = MachineValue(variant, validated[k]))

\* C2 as stated: a run that finds M > 0 records in the gold set never calls
\* the oracle, and its statistics count exactly those M records.
C2_ResumeNeverCallsOracle ==
    existing =>
        /\ oracle_calls = 0
        /\ stats # NoStats => stats.N = Len(entry_rows)

\* C2 amended: a run that finds M > 0 records in the gold set never enters
\* the per-item cycle and computes its statistics over exactly those M
\* records; its only oracle calls are the three per sampled case of the
\* consistency check, which runs only with at least 20 accepted records and
\* the credential set.
C2_ResumeCallsOracleOnlyInConsistencyCheck ==
    existing =>
        /\ pc \in {"stats", "consistency", "done"}
        /\ addresses = <<>>
        /\ stats # NoStats => stats.N = Len(entry_rows)
        /\ oracle_calls = Runs * Len(consistency_results)
        /\ consistency_results # <<>> =>
               api_key /\ Accepted(entry_rows) >= MinCorrect
        /\ pc = "done" => oracle_calls = Runs * Len(sample_cases)

C2_Witness ==
    /\ existing
    /\ pc = "done"
    /\ Len(entry_rows) > SampleSize
    /\ stats.N = Len(entry_rows)
    /\ oracle_calls = Runs * SampleSize

\* C3: quit at a prompt ends the loop at once with the records made so far
\* all in the gold set, complete, and nothing recorded for the item in hand.
C3_QuitKeepsRecordedItems ==
    /\ [](exit_by \in {"quit", "abort"} =>
            /\ StoreRows = validated
            /\ \A k \in 1..Len(validated) :
                   DOMAIN validated[k] = GoldFields(variant))
    /\ [][(exit_by = "none" /\ exit_by' \in {"quit", "abort"}) =>
            /\ pc' = "final"
            /\ validated' = validated
            /\ output_file' = output_file
            /\ \A k \in 1..Len(validated') :
                   Original(variant, validated'[k])
                   # Original(variant, addresses[i + 1])]_vars

C3_Witness ==
    /\ exit_by = "quit"
    /\ Len(validated) = 2
    /\ Len(addresses) > 2
    /\ StoreRows = validated

\* C4: a session that runs through the corpus without oracle error and
\* without quit has made one record for each corpus item.
C4_OneRecordPerItem ==
    (exit_by = "exhausted" /\ ~OracleFailed) =>
        /\ Len(validated) = Len(addresses)
        /\ \A k \in 1..Len(validated) :
               Original(variant, validated[k])
               = Original(variant, addresses[k])

\* C5: between two items, once a record has been made, the gold set file
\* holds exactly the list of records made so far.
C5_CheckpointHoldsAllRecords ==
    (~existing /\ validated # <<>>
     /\ pc \in {"oracle", "error_prompt", "human", "final"}) =>
        /\ output_file.exists
        /\ output_file.rows = validated

C5_Witness ==
    /\ pc = "oracle"
    /\ Len(validated) = 2
    /\ output_file.rows = validated

\* C6: an item whose machine value is the error sentinel is never recorded;
\* the human is asked whether to go on or stop, and either answer leaves
\* the records and the gold set as they were.
C6_OracleErrorNotRecorded ==
    /\ [](/\ \A k \in 1..Len(validated) :
                ~HasErrorField(MachineValue(variant, validated[k]))
          /\ \A k \in 1..Len(output_file.rows) :
                ~HasErrorField(MachineValue(variant, output_file.rows[k])))
    /\ [][/\ (pc = "oracle" /\ HasErrorField(llm')) =>
                /\ pc' = "error_prompt"
                /\ validated' = validated
                /\ output_file' = output_file
          /\ pc = "error_prompt" =>
                /\ prompts' = prompts + 1
                /\ validated' = validated
                /\ output_file' = output_file
                /\ \/ pc' = "oracle" /\ i' = i + 1
                   \/ pc' = "final" /\ exit_by' \in {"abort", "exhausted"}]_vars

C6_Witness ==
    /\ exit_by = "abort"
    /\ validated # <<>>
    /\ output_file.rows = validated

\* C7: in the address script, after statistics over records of which some
\* are rejected, the audit file holds exactly the rejected records.
C7_AuditFileHoldsRejected ==
    (variant = "address" /\ stats # NoStats
     /\ NotAccepted(validated) > 0 /\ RejectedRows(validated, ErrorFields) # <<>>)
    => /\ error_file.exists
       /\ error_file.rows = RejectedRows(validated, ErrorFields)

\* C8: in the affiliation script, a run through the corpus with a accepted
\* and c corrected items reports N = a + c, R = a, W = c, accuracy R/N,
\* error rate W/N, and its audit file holds exactly the c corrected rows.
C8_AffiliationReportAndAudit ==
    (variant = "affiliation" /\ ~existing /\ exit_by = "exhausted"
     /\ stats # NoStats) =>
        LET a == Accepted(validated)
            c == NotAccepted(validated)
        IN  /\ stats.N = a + c
            /\ stats.r = a
            /\ stats.w = c
            /\ stats.accuracy = [num |-> a * 100, den |-> a + c]
            /\ stats.error_rate = [num |-> c * 100, den |-> a + c]
            /\ c > 0 =>
                 /\ error_file.exists
                 /\ error_file.rows
                    = RejectedRows(validated,
                                   GoldFields(variant) \ {"label"})

\* C9: R + W = N with every record not labelled r counted in W; accuracy
\* and error rate add up to 100 percent when N > 0 and are both zero when
\* N = 0.
C9_StatisticsArithmetic ==
    stats # NoStats =>
        /\ stats.N = Len(validated)
        /\ stats.r + stats.w = stats.N
        /\ stats.w = NotAccepted(validated)
        /\ stats.N > 0 =>
             /\ stats.accuracy.den = stats.N
             /\ stats.error_rate.den = stats.N
             /\ stats.accuracy.num + stats.error_rate.num = 100 * stats.N
        /\ stats.N = 0 =>
             /\ stats.accuracy.num = 0
             /\ stats.error_rate.num = 0

C9_Witness ==
    /\ stats # NoStats
    /\ stats.w = 2
    /\ \E k \in 1..Len(validated) : validated[k].label \notin {sR, sW}

\* C10: the sampled cases are pairwise distinct records, at most
\* min(20, number of accepted records) of them, all accepted.
C10_SampleDistinctAndAccepted ==
    /\ Len(sample_cases) <= Min(20, Accepted(validated))
    /\ \A j, k \in 1..Len(sample_cases) :
           j # k => sample_cases[j] # sample_cases[k]
    /\ \A j \in 1..Len(sample_cases) :
           /\ sample_cases[j] \in 1..Len(validated)
           /\ validated[sample_cases[j]].label = sR

C10_Witness ==
    /\ Len(sample_cases) = 20
    /\ Accepted(validated) = 21
    /\ NotAccepted(validated) = 0
    /\ Len(consistency_results) = 20

\* the outputs of the three runs as a row of consistency_results holds them
ReportedRuns(v, row) ==
    IF v = "affiliation"
    THEN <<(<<row.run_1>>), (<<row.run_2>>), (<<row.run_3>>)>>
    ELSE <<(<<row.run_1_country, row.run_1_continent>>),
           (<<row.run_2_country, row.run_2_continent>>),
           (<<row.run_3_country, row.run_3_continent>>)>>

\* C11: for every sampled case of the consistency check (three runs), the
\* variance is the number of distinct outputs minus one and lies in
\* {0, 1, 2}, and the case is reported consistent exactly when its variance
\* is 0, which is exactly when every run equals the first in every field.
C11_VarianceAndConsistency ==
    \A k \in 1..Len(consistency_results) :
        LET row == consistency_results[k]
            runs == ReportedRuns(variant, row)
        IN  /\ row.unique_outputs = Cardinality({runs[j] : j \in 1..Runs})
            /\ row.variance = row.unique_outputs - 1
            /\ row.variance \in {0, 1, 2}
            /\ row.consistent \in {sYesWord, sNoWord}
            /\ (row.consistent = sYesWord) <=> (row.variance = 0)
            /\ (row.consistent = sYesWord)
               <=> (\A j \in 1..Runs :
                       \A f \in DOMAIN runs[j] : runs[j][f] = runs[1][f])

C11_Witness ==
    /\ Len(consistency_results) >= 2
    /\ consistency_results[1].variance = 2
    /\ consistency_results[1].consistent = sNoWord
    /\ consistency_results[2].variance = 0
    /\ consistency_results[2].consistent = sYesWord

\* C12: with fewer than 20 accepted records print_statistics skips the
\* consistency check: no oracle call, no consistency file, the shortfall is
\* printed and the function returns normally; with 20 or more and the
\* credential set the check runs on 20 sampled cases, three calls each.
C12_SamplerPrecondition ==
    /\ [](stats # NoStats =>
            /\ Accepted(validated) < MinCorrect =>
                  /\ pc = "done"
                  /\ outcome \in {"resumed", "finished"}
                  /\ sample_cases = <<>>
                  /\ consistency_results = <<>>
                  /\ consistency_file = Absent
                  /\ Msg("not_enough_correct_samples", MinCorrect,
                         Accepted(validated)) \in report
                  /\ existing => oracle_calls = 0
            /\ (Accepted(validated) >= MinCorrect /\ api_key) =>
                  /\ pc \in {"consistency", "done"}
                  /\ Len(sample_cases) = SampleSize
                  /\ Msg("running_consistency_check", 0, 0) \in report
                  /\ pc = "done" =>
                        /\ Len(consistency_results) = SampleSize
                        /\ existing => oracle_calls = Runs * SampleSize)
    /\ [][(pc = "stats" /\ Accepted(validated) < MinCorrect) =>
            /\ pc' = "done"
            /\ oracle_calls' = oracle_calls
            /\ consistency_file' = consistency_file]_vars

C12_Witness ==
    /\ pc = "done"
    /\ outcome = "resumed"
    /\ stats.N = MinCorrect
    /\ Accepted(validated) = MinCorrect - 1
    /\ api_key
    /\ consistency_file = Absent

\* the raw csv is missing, lacks a required column or has no rows, or the
\* credential is not set
BadPrecondition ==
    \/ ~input_file.exists
    \/ ~input_file.columns
    \/ input_file.rows = <<>>
    \/ ~api_key

\* C13: when the gold set yields no records and the raw csv is missing,
\* lacks a required column or has no rows, or the credential is not set,
\* the run ends as a precondition failure with no oracle call, no prompt,
\* and the gold set, audit and consistency files left as they were.
C13_PreconditionFailureHasNoEffect ==
    /\ []((BadPrecondition /\ ~existing /\ pc # "load") =>
            /\ pc \in {"check_input", "done"}
            /\ pc = "done" => outcome = "precondition"
            /\ oracle_calls = 0
            /\ prompts = 0
            /\ validated = <<>>
            /\ output_file.rows = entry_rows
            /\ error_file = Absent
            /\ consistency_file = Absent)
    /\ [][(BadPrecondition /\ ~existing') =>
            /\ files' = files
            /\ oracle_calls' = oracle_calls
            /\ prompts' = prompts]_vars

C13_Witness ==
    /\ pc = "done"
    /\ outcome = "precondition"
    /\ ~api_key
    /\ Len(input_file.rows) = MaxCorpus
    /\ output_file = File(<<>>)

WriteFailed == Msg("error_saving_output", 0, 0) \in report

\* C14: when the rewrite of the gold set fails after a record was appended,
\* validate_normalizations returns at once: no later item gets an oracle
\* call, a prompt or a write, and no statistics are computed.
C14_FailedWriteEndsSession ==
    /\ [](WriteFailed =>
            /\ pc = "done"
            /\ outcome = "persistence"
            /\ stats = NoStats
            /\ ~ENABLED Next)
    /\ [][(~WriteFailed /\ WriteFailed') =>
            /\ pc = "human"
            /\ validated' = Append(validated, validated'[Len(validated')])
            /\ oracle_calls' = oracle_calls
            /\ prompts' = prompts + 1]_vars

C14_Witness ==
    /\ WriteFailed
    /\ Len(validated) = 2
    /\ range_next < Len(addresses)
    /\ output_file.rows # validated

\* the per-item loop of a started session has ended
LoopEnded == ~existing /\ exit_by \in {"exhausted", "quit", "abort"}

\* C15 as stated: a started session whose loop ended by exhaustion, quit or
\* abort has, when it is over, computed the statistics of the records made
\* so far, however many they are.
C15_EveryEndComputesStatistics ==
    (LoopEnded /\ pc = "done") => stats = Statistics(validated)

\* C15 amended: a started session whose loop ended by exhaustion, quit or
\* abort goes on to the statistics of exactly the records made so far when
\* there is at least one; with no record it computes no statistics and ends
\* with its closing lines.
C15_EndWithRecordsComputesStatistics ==
    /\ []((LoopEnded /\ pc = "done") =>
            /\ outcome = "finished"
            /\ Msg("output_files", 0, 0) \in report
            /\ stats = IF validated # <<>> THEN Statistics(validated)
                       ELSE NoStats)
    /\ [][(LoopEnded /\ pc = "final") =>
            /\ validated' = validated
            /\ pc' = IF validated # <<>> THEN "stats" ELSE "done"]_vars
    /\ [][(LoopEnded /\ pc = "stats") =>
            /\ validated' = validated
            /\ stats' = Statistics(validated)]_vars

C15_Witness ==
    /\ pc = "done"
    /\ exit_by = "abort"
    /\ Len(validated) = 1
    /\ Len(addresses) = MaxCorpus
    /\ stats = Statistics(validated)

\* C16: a run that finds one or more records in the gold set never calls
\* input(), never appends a record and never writes the gold set: the file
\* is the same after the run as before.
C16_ResumeOnlyReports ==
    /\ [](existing =>
            /\ prompts = 0
            /\ addresses = <<>>
            /\ validated = entry_rows
            /\ output_file = File(entry_rows)
            /\ pc = "done" => outcome = "resumed")
    /\ [][existing' =>
            /\ prompts' = prompts
            /\ output_file' = output_file
            /\ Len(validated') = Len(entry_rows)]_vars

C16_Witness ==
    /\ existing
    /\ pc = "done"
    /\ NotAccepted(entry_rows) > 0
    /\ consistency_file.exists
    /\ output_file = File(entry_rows)

\* a step of the correction prompt on a response that is empty after
\* strip() appends a record labelled r whose human value is the machine
\* value
EmptyResponseAccepts ==
    \A line \in {sEmpty, <<" ">>} :
        HumanValidationOn(line) =>
            /\ Len(validated') = Len(validated) + 1
            /\ LET row == validated'[Len(validated')]
               IN  /\ MachineValue(variant, row) = llm
                   /\ HumanValue(variant, row) = llm
                   /\ row.label = sR

\* every field of the human value of every record is a non-empty string
HumanValuePopulated(rows) ==
    \A k \in 1..Len(rows) :
        \A f \in DOMAIN HumanValue(variant, rows[k]) :
            HumanValue(variant, rows[k])[f] # sEmpty

\* C17: an empty response at the correction prompt makes a record whose
\* human value equals the machine value in every field, labelled r; and no
\* record, in the list or in the gold set, has an empty human value.
C17_HumanValueAlwaysPopulated ==
    /\ [][EmptyResponseAccepts]_vars
    /\ [](HumanValuePopulated(validated)
          /\ HumanValuePopulated(output_file.rows))

\* C18: quit typed in any letter case is taken as quit at each of the three
\* prompts: the session ends there (cancelled at the confirmation, the loop
\* left at the error and the correction prompt) with no record for the item
\* in hand, and a typed quit is never stored as the human value.
C18_QuitInAnyCase ==
    /\ [][\A word \in QuitWords :
            /\ ConfirmOn(word) =>
                  /\ pc' = "done"
                  /\ outcome' = "cancelled"
                  /\ oracle_calls' = 0
                  /\ validated' = <<>>
                  /\ output_file' = output_file
            /\ ErrorPromptOn(word) =>
                  /\ pc' = "final"
                  /\ exit_by' = "abort"
                  /\ validated' = validated
                  /\ output_file' = output_file
            /\ HumanValidationOn(word) =>
                  /\ pc' = "final"
                  /\ exit_by' = "quit"
                  /\ validated' = validated
                  /\ output_file' = output_file]_vars
    /\ []((variant = "affiliation" /\ ~existing) =>
            \A k \in 1..Len(validated) :
                validated[k].label = sW =>
                    Lower(validated[k].human_normalized) # sQuit)

C18_Witness ==
    /\ variant = "affiliation"
    /\ pc = "final"
    /\ exit_by = "quit"
    /\ prompts = 3
    /\ Len(validated) = 1
    /\ validated[1].label = sW

\* every field of a machine value is the sentinel "ERROR"
AllErrorFields(v, value) ==
    /\ Len(value) = (IF v = "affiliation" THEN 1 ELSE 2)
    /\ \A f \in 1..Len(value) : value[f] = sERROR

\* C19: a call of the oracle that raises gives the sentinel ERROR in every
\* field and ends nothing: in the loop the session stays running, shows the
\* error prompt and from there goes to the next item or leaves the loop; in
\* the consistency check the failed run is reported as ERROR and the check
\* goes on.
C19_OracleFailureIsCaught ==
    /\ [][GetNormalizationOn(Raised) =>
            /\ AllErrorFields(variant, llm')
            /\ pc' = "error_prompt"
            /\ outcome' = "running"
            /\ validated' = validated]_vars
    /\ [][pc = "error_prompt" =>
            /\ pc' \in {"oracle", "final"}
            /\ outcome' = "running"]_vars
    /\ [][(pc = "consistency"
            /\ Len(consistency_results) < Len(sample_cases)) =>
            \A replies \in CaseReplies :
                ConsistencyCaseOn(replies) =>
                    /\ pc' = "consistency"
                    /\ outcome' = "running"
                    /\ \A k \in 1..Runs :
                         replies[k].exc =>
                           AllErrorFields(variant,
                               ReportedRuns(variant,
                                   consistency_results'[
                                       Len(consistency_results')])[k])]_vars

C19_Witness ==
    /\ variant = "affiliation"
    /\ OracleFailed
    /\ pc = "oracle"
    /\ i = 2
    /\ Len(validated) = 1
    /\ outcome = "running"

\* the reply is a text that, once its fence is removed, is no JSON object
Malformed(reply) ==
    ~reply.exc /\ json_loads(StripFence(reply.content)).kind # "dict"

\* C20: for a reply that is no JSON object once its fence is removed, the
\* address script takes ERROR for country and for continent and shows the
\* error prompt (continue or quit), and the affiliation script takes the
\* cleaned text of the reply as the normalized name.
C20_MalformedReplyPolicy ==
    /\ [][pc = "oracle" =>
          \A reply \in Replies(variant,
                               Original(variant, addresses[i + 1])) :
              (Malformed(reply) /\ GetNormalizationOn(reply)) =>
                  /\ outcome' = "running"
                  /\ validated' = validated
                  /\ IF variant = "address"
                     THEN /\ llm' = <<sERROR, sERROR>>
                          /\ pc' = "error_prompt"
                     ELSE llm' = <<StripFence(reply.content)>>]_vars
    /\ [](pc = "error_prompt" =>
            /\ outcome = "running"
            /\ ENABLED ErrorPromptOn(sEmpty)
            /\ ENABLED ErrorPromptOn(sQuit))

C20_Witness ==
    /\ variant = "affiliation"
    /\ pc = "human"
    /\ llm = <<JsonStr(sA)>>

\* rows is an order-preserving subsequence of corpus: every row carries the
\* rfc_id and the raw string of a corpus item, later rows of later items
RECURSIVE IsSubsequence(_, _, _)
IsSubsequence(v, rows, corpus) ==
    IF rows = <<>> THEN TRUE
    ELSE IF corpus = <<>> THEN FALSE
    ELSE IF /\ Head(rows).rfc_id = Head(corpus).rfc_id
            /\ Original(v, Head(rows)) = Original(v, Head(corpus))
    THEN IsSubsequence(v, Tail(rows), Tail(corpus))
    ELSE IsSubsequence(v, rows, Tail(corpus))

RECURSIVE SumVariance(_)
SumVariance(rows) ==
    IF rows = <<>> THEN 0 ELSE Head(rows).variance + SumVariance(Tail(rows))

\* C22: when the consistency check has run over s sampled cases, the
\* consistency rate is (s - inconsistent_count) / s as a percentage, the
\* total variance is the sum of the variances of the cases and the average
\* variance is the total over s; when the three runs of every case are
\* equal the total variance is 0 and the rate is 100%.
C22_ConsistencyAggregates ==
    summary # NoSummary =>
        LET s == Len(sample_cases)
            rate == summary.consistency_rate
            avg == summary.avg_variance
        IN  /\ s > 0
            /\ Len(consistency_results) = s
            /\ inconsistent_count
               = Cardinality({k \in 1..s :
                                 consistency_results[k].consistent = sNoWord})
            /\ total_variance = SumVariance(consistency_results)
            /\ rate.num * s = (s - inconsistent_count) * 100 * rate.den
            /\ avg.num * s = total_variance * avg.den
            /\ (\A k \in 1..s :
                    \A j \in 1..Runs :
                        ReportedRuns(variant, consistency_results[k])[j]
                        = ReportedRuns(variant, consistency_results[k])[1])
               => /\ total_variance = 0
                  /\ rate.num = 100 * rate.den

C22_Witness ==
    /\ summary # NoSummary
    /\ Len(sample_cases) = SampleSize
    /\ Accepted(validated) > SampleSize
    /\ inconsistent_count = 1
    /\ total_variance = 2
    /\ summary.consistency_rate.num = 95 * summary.consistency_rate.den

ConsistencySaved == Msg("consistency_results_saved", 0, 0) \in report

\* C23: every sampled case of the consistency check costs exactly three
\* oracle calls and gives one report row with three outputs, a call that
\* fails being reported as ERROR in its own place; a check over s cases has
\* made 3 * s calls when it ends and the report it saves has exactly s rows.
C23_ThreeCallsPerSample ==
    /\ [](/\ Len(consistency_results) <= Len(sample_cases)
          /\ \A k \in 1..Len(consistency_results) :
                 /\ Len(ReportedRuns(variant, consistency_results[k])) = Runs
                 /\ Original(variant, consistency_results[k])
                    = Original(variant, validated[sample_cases[k]])
          /\ (pc = "done" /\ summary # NoSummary) =>
                 /\ Len(consistency_results) = Len(sample_cases)
                 /\ existing =>
                        oracle_calls = Runs * Len(sample_cases)
          /\ ConsistencySaved =>
                 /\ consistency_file = File(consistency_results)
                 /\ Len(consistency_file.rows) = Len(sample_cases))
    /\ [][consistency_results' # consistency_results =>
            /\ pc = "consistency"
            /\ oracle_calls' = oracle_calls + Runs
            /\ Len(consistency_results') = Len(consistency_results) + 1
            /\ SubSeq(consistency_results', 1, Len(consistency_results))
               = consistency_results
            /\ \A replies \in CaseReplies :
                   ConsistencyCaseOn(replies) =>
                       \A k \in 1..Runs :
                           replies[k] = Raised =>
                               AllErrorFields(
                                   variant,
                                   ReportedRuns(
                                       variant,
                                       consistency_results'[
                                           Len(consistency_results')])[k])]_vars

C23_Witness ==
    /\ pc = "done"
    /\ ConsistencySaved
    /\ Len(consistency_file.rows) = SampleSize
    /\ oracle_calls = Runs * SampleSize
    /\ AllErrorFields(variant,
                      ReportedRuns(variant, consistency_file.rows[1])[3])
    /\ ~AllErrorFields(variant,
                       ReportedRuns(variant, consistency_file.rows[1])[2])

\* C24: print_statistics (the report, the error export and the consistency
\* check) leaves the gold set file and the records as they are; the rows of
\* the consistency check go to the consistency file and to no other file.
C24_StatisticsLeaveGoldSetAlone ==
    /\ [][(pc \in {"stats", "consistency"}) =>
            /\ output_file' = output_file
            /\ validated' = validated
            /\ (input_file' = input_file)]_vars
    /\ [][pc = "consistency" => (error_file' = error_file)]_vars
    /\ [](stats # NoStats =>
            /\ output_file = File(validated)
            /\ existing => validated = entry_rows
            /\ \A k \in 1..Len(error_file.rows) :
                   DOMAIN error_file.rows[k] \subseteq ErrorFields
            /\ consistency_file.rows # <<>> =>
                   consistency_file.rows = consistency_results)

C24_Witness ==
    /\ pc = "done"
    /\ variant = "address"
    /\ consistency_file.rows # <<>>
    /\ Msg("error_saving_error_samples", 0, 0) \in report
    /\ output_file = File(entry_rows)

\* no record is labelled w
NoneRejected(rows) == \A k \in 1..Len(rows) : rows[k].label # sW

\* C25: in the address script, when no record is labelled w, the error
\* export leaves the audit file absent, says that there are no error cases
\* and reports no failure, and print_statistics goes on to the consistency
\* step and ends normally.
C25_NoRejectedNoAuditFile ==
    (variant = "address" /\ stats # NoStats /\ NoneRejected(validated)) =>
        /\ error_file = Absent
        /\ Msg("no_error_cases", 0, 0) \in report
        /\ \A m \in report :
               m.msg \notin {"error_saving_error_samples",
                             "error_samples_saved"}
        /\ pc \in {"consistency", "done"}
        /\ pc = "done" =>
               /\ outcome \in {"finished", "resumed"}
               /\ \/ summary # NoSummary
                  \/ Msg("skipping_consistency_check", 0, 0) \in report
                  \/ Msg("not_enough_correct_samples", MinCorrect,
                         Accepted(validated)) \in report
        /\ (Accepted(validated) >= MinCorrect /\ api_key) =>
               (pc = "consistency" \/ summary # NoSummary)

C25_Witness ==
    /\ variant = "address"
    /\ pc = "done"
    /\ NoneRejected(validated)
    /\ Len(validated) > MinCorrect
    /\ summary # NoSummary
    /\ error_file = Absent
    /\ Msg("no_error_cases", 0, 0) \in report

\* C26: a session that the human aborts at the error prompt, with j records
\* made out of n corpus items, has printed the progress count "j out of n"
\* when it is over.
C26_AbortEmitsProgressCount ==
    (~existing /\ exit_by = "abort" /\ pc = "done") =>
        Msg("saving_progress", Len(validated), Len(addresses)) \in report

\* the JSON object a reply parses as, after the fence is stripped
ReplyObject(reply) ==
    IF reply.exc THEN [kind |-> "invalid", pairs |-> <<>>]
    ELSE json_loads(StripFence(reply.content))

HasKey(pairs, key) == \E k \in 1..Len(pairs) : pairs[k][1] = key
ValueOf(pairs, key) ==
    pairs[CHOOSE k \in 1..Len(pairs) :
              /\ pairs[k][1] = key
              /\ \A h \in (k + 1)..Len(pairs) : pairs[h][1] # key][2]

\* the keys normalize looks up in the object
RequiredKeys(v, original) ==
    IF v = "affiliation" THEN <<original>> ELSE <<sCountry, sContinent>>

\* C27 as stated: for a reply that parses as a JSON object, in both
\* scripts, every required field is the value the object gives it, or
\* "Unknown" when the object lacks it, and no error is raised for it.
C27_MissingFieldsAreUnknown ==
    [][pc = "oracle" =>
          \A reply \in Replies(variant, Original(variant, addresses[i + 1])) :
              (GetNormalizationOn(reply) /\ ReplyObject(reply).kind = "dict") =>
                  LET pairs == ReplyObject(reply).pairs
                      keys == RequiredKeys(variant,
                                           Original(variant, addresses[i + 1]))
                  IN  /\ Len(llm') = Len(keys)
                      /\ \A f \in 1..Len(keys) :
                             llm'[f] = IF HasKey(pairs, keys[f])
                                       THEN ValueOf(pairs, keys[f])
                                       ELSE sUnknown
                      /\ (\A f \in 1..Len(keys) :
                              HasKey(pairs, keys[f]) =>
                                  ValueOf(pairs, keys[f]) # sERROR)
                         => pc' = "human"]_vars

\* C27 amended: for a reply that parses as a JSON object every required
\* field is the value the object gives it and no error is raised for a
\* field the object lacks; a missing country or continent is "Unknown", a
\* missing affiliation key gives the first value of the object, or the
\* cleaned text of the reply when the object is empty.
C27_MissingFieldsFallBack ==
    [][pc = "oracle" =>
          \A reply \in Replies(variant, Original(variant, addresses[i + 1])) :
              (GetNormalizationOn(reply) /\ ReplyObject(reply).kind = "dict") =>
                  LET pairs == ReplyObject(reply).pairs
                      keys == RequiredKeys(variant,
                                           Original(variant, addresses[i + 1]))
                  IN  /\ Len(llm') = Len(keys)
                      /\ \A f \in 1..Len(keys) :
                             llm'[f] = IF HasKey(pairs, keys[f])
                                       THEN ValueOf(pairs, keys[f])
                                       ELSE IF variant = "address"
                                       THEN sUnknown
                                       ELSE IF pairs # <<>>
                                       THEN pairs[1][2]
                                       ELSE StripFence(reply.content)
                      /\ (\A f \in 1..Len(keys) :
                              HasKey(pairs, keys[f]) =>
                                  ValueOf(pairs, keys[f]) # sERROR)
                         => pc' = "human"]_vars

\* an item is recorded whose reply was the empty object
C27_Witness ==
    /\ validated # <<>>
    /\ IF variant = "address"
       THEN MachineValue(variant, validated[1]) = <<sUnknown, sUnknown>>
       ELSE MachineValue(variant, validated[1]) = <<(<<"{", "}">>)>>

\* C28: the records the gold set file held when the run started stay in it
\* unchanged, and the per-item loop is entered only by a run that started
\* with a file holding no record, whether the file was absent, header-only,
\* readable with records, or held records that could not be read.
C28_EntryRecordsKept ==
    /\ Len(output_file.rows) >= Len(entry_rows)
    /\ \A k \in 1..Len(entry_rows) : output_file.rows[k] = entry_rows[k]
    /\ pc \in {"oracle", "error_prompt", "human"} => entry_rows = <<>>

\* an upper bound on the number of steps the run has left: one for each
\* phase ahead, two (the oracle call and the prompt) for each corpus item
\* not yet taken, one for each sampled case of the consistency check
StepsLeft ==
    LET K == SampleSize + 1
        n == Len(addresses)
    IN  CASE pc = "load" -> K + 5 + 2 * Len(input_file.rows)
          [] pc = "check_input" -> K + 4 + 2 * Len(input_file.rows)
          [] pc = "confirm" -> K + 3 + 2 * n
          [] pc = "oracle" -> K + 2 + 2 * (n - i)
          [] pc \in {"error_prompt", "human"} -> K + 1 + 2 * (n - i)
          [] pc = "final" -> K + 2
          [] pc = "stats" -> K + 1
          [] pc = "consistency" ->
                 1 + Len(sample_cases) - Len(consistency_results)
          [] pc = "done" -> 0

\* C29: the run always ends: every step brings the end nearer (StepsLeft
\* is a natural number that every step decreases), and up to the
\* consistency check there always is a step to take until the run has
\* ended.  The per-item loop of a session takes every
\* corpus item at most once, in order, with one oracle call and at most one
\* prompt (the error prompt or the correction prompt) for it; an oracle
\* failure or a correction in a bad format moves on to the next item.
C29_SessionTerminates ==
    /\ [](/\ StepsLeft \in Nat
          /\ pc \notin {"done", "consistency"} => ENABLED Next)
    /\ [][StepsLeft' < StepsLeft]_vars
    /\ [](~existing =>
            /\ pc = "oracle" =>
                   /\ i < Len(addresses)
                   /\ oracle_calls = i
                   /\ prompts = i + 1
            /\ pc \in {"error_prompt", "human"} =>
                   /\ oracle_calls = i + 1
                   /\ prompts = i + 1
            /\ pc = "final" =>
                   /\ oracle_calls <= Len(addresses)
                   /\ prompts = oracle_calls + 1)
    /\ [][(pc \in {"error_prompt", "human"} /\ pc' = "oracle") =>
            (i' = i + 1)]_vars

C29_Witness ==
    /\ pc = "done"
    /\ variant = "address"
    /\ exit_by = "exhausted"
    /\ Msg("bad_format", 0, 0) \in report
    /\ Msg("failed_to_get_normalization", 1, 0) \in report
    /\ Len(addresses) = 3
    /\ oracle_calls = 3
    /\ prompts = 4

====
